---- MODULE Spec2Model ----
(***************************************************************************)
(* Reno: a renovation planning assistant.  The model covers the App       *)
(* component (src/types.ts), the Moodboard image intake, the Dashboard    *)
(* (src/unnamed/part_000), the Button component and the three calls of    *)
(* src/services/geminiService.ts.                                          *)
(*                                                                         *)
(* Texts are sequences of tokens (a token is a TLA+ string), so that      *)
(* "the prompt contains the address" is a statement about subsequences.   *)
(* A response text of the plan service is modelled by its abstract JSON   *)
(* syntax (or by the fact that it has none); JSON.parse turns it into a   *)
(* JavaScript value.  JavaScript objects are records, arrays are          *)
(* sequences (index i of the source is position i + 1 here), an absent    *)
(* property is a field that is not in the DOMAIN.                         *)
(***************************************************************************)
EXTENDS Naturals, Sequences, FiniteSets, Bags, TLC

VARIABLES
    step,                \* App: useState<number>(1)
    isLoading,           \* App: useState(false)
    error,               \* App: useState<string | null>(null)
    images,              \* App: useState<ImageAsset[]>([])
    details,             \* App: useState<PropertyDetails>({...})
    plan,                \* App: useState<RenovationPlan | null>(null)
    crashed,             \* the React tree was torn down by a render that threw
    reads,               \* Moodboard: FileReader reads in flight
    planCalls,           \* analyzeRenovation calls awaiting generateContent
    imageSize,           \* Dashboard: useState<'1K' | '2K' | '4K'>('1K')
    phaseImages,         \* Dashboard: useState<{[key: number]: string}>({})
    generatingPhase,     \* Dashboard: useState<{[key: number]: boolean}>({})
    blueprints,          \* Dashboard: useState<{[key: number]: string}>({})
    generatingBlueprint, \* Dashboard: useState<{[key: number]: boolean}>({})
    assetCalls,          \* handleGenerateImage / handleGenerateBlueprint calls in flight
    alertMsg,            \* the last message shown with alert()
    consoleLog,          \* the arguments of the last console.error
    saved,               \* the document the step just taken handed to doc.save
    aistudio,            \* window.aistudio: "absent", or whether a key is selected
    svcIn,               \* input of a service function applied on its own
    svcOut               \* what that service function returned or threw

appVars == <<step, isLoading, error, images, details, plan, crashed>>
dashVars == <<imageSize, phaseImages, generatingPhase, blueprints, generatingBlueprint>>
callVars == <<reads, planCalls, assetCalls, alertMsg, consoleLog, aistudio>>
svcVars == <<svcIn, svcOut>>
vars == <<appVars, dashVars, callVars, saved, svcVars>>

-----------------------------------------------------------------------------
(* Bounds of the model *)

MaxImages == 1     \* images in the list plus reads in flight
MaxFiles == 3      \* the same, for the Moodboard taken on its own
MaxPending == 2    \* handlers awaiting a service or the host at once

-----------------------------------------------------------------------------
(* JavaScript values *)

\* null, of `plan` and of a parsed JSON text "null"
NULL == [null |-> TRUE]

\* null of the `error` state, which otherwise holds a message
NoError == "null"

\* String(n) of a natural number below 1e21, as template literals apply it
RECURSIVE NumberToString(_)
NumberToString(n) ==
    LET d == <<"0", "1", "2", "3", "4", "5", "6", "7", "8", "9">>
    IN IF n < 10 THEN <<d[n + 1]>>
       ELSE NumberToString(n \div 10) \o <<d[(n % 10) + 1]>>

\* the value of a JSON number literal given by its decimal digits
RECURSIVE NumberOfLiteral(_)
NumberOfLiteral(lit) ==
    LET v(c) == CHOOSE k \in 0..9 : NumberToString(k) = <<c>>
    IN IF lit = <<>> THEN 0
       ELSE 10 * NumberOfLiteral(SubSeq(lit, 1, Len(lit) - 1)) + v(lit[Len(lit)])

-----------------------------------------------------------------------------
(* src/services/geminiService.ts: the plan request *)

\* the output schema declared with the request
responseSchema ==
    [type |-> "OBJECT",
     properties |->
        [summary |-> [type |-> "STRING"],
         buildingStyle |-> [type |-> "STRING"],
         phases |->
            [type |-> "ARRAY",
             items |->
                [type |-> "OBJECT",
                 properties |->
                    [name |-> [type |-> "STRING"],
                     durationWeeks |-> [type |-> "NUMBER"],
                     costEstimate |-> [type |-> "NUMBER"],
                     description |-> [type |-> "STRING"]],
                 required |-> {"name", "durationWeeks", "costEstimate", "description"}]],
         roiProjection |->
            [type |-> "ARRAY",
             items |->
                [type |-> "OBJECT",
                 properties |->
                    [year |-> [type |-> "NUMBER"],
                     value |-> [type |-> "NUMBER"]],
                 required |-> {"year", "value"}]],
         co2Savings |->
            [type |-> "ARRAY",
             items |->
                [type |-> "OBJECT",
                 properties |->
                    [category |-> [type |-> "STRING"],
                     savingTons |-> [type |-> "NUMBER"],
                     description |-> [type |-> "STRING"]],
                 required |-> {"category", "savingTons", "description"}]],
         funding |->
            [type |-> "ARRAY",
             items |->
                [type |-> "OBJECT",
                 properties |->
                    [name |-> [type |-> "STRING"],
                     amount |-> [type |-> "STRING"],
                     description |-> [type |-> "STRING"]],
                 required |-> {"name", "amount", "description"}]],
         totalCost |-> [type |-> "NUMBER"],
         totalDuration |-> [type |-> "NUMBER"]],
     required |-> {"summary", "phases", "roiProjection", "co2Savings", "funding",
                   "totalCost", "totalDuration", "buildingStyle"}]

\* imageParts with the images in reverse order
imageParts_reversed(imgs) ==
    [i \in 1..Len(imgs) |->
        [inlineData |-> [mimeType |-> imgs[Len(imgs) + 1 - i].type,
                         data |-> imgs[Len(imgs) + 1 - i].base64]]]

\* images.map(img => ({inlineData: {mimeType: img.type, data: img.base64}}))
imageParts(imgs) ==
    [i \in 1..Len(imgs) |->
        [inlineData |-> [mimeType |-> imgs[i].type, data |-> imgs[i].base64]]]

\* the instruction text, a template literal over the details
prompt(d) ==
    <<"Act as an expert renovation consultant for multifamily properties in Berlin, Germany.",
      "Analyze the provided images of the property and the following details:",
      "Address: ">> \o d.address \o
    <<"Size: ">> \o NumberToString(d.sqm) \o <<" sqm",
      "Budget: EUR">> \o NumberToString(d.budget) \o
    <<"Current Efficiency Class: ", d.currentEfficiency,
      "Generate a comprehensive renovation plan that focuses on energy efficiency, ROI, and modernization.",
      "Include specific German funding programs (KfW, BAFA) where applicable.",
      "Provide realistic timelines and cost estimates for Berlin market rates.">>

\* the argument of ai.models.generateContent in analyzeRenovation
PlanRequest(d, imgs) ==
    [model |-> "gemini-2.5-flash",
     contents |-> [parts |-> imageParts(imgs) \o <<[text |-> prompt(d)]>>],
     config |-> [responseMimeType |-> "application/json",
                 responseSchema |-> responseSchema,
                 temperature |-> "0.4"]]

-----------------------------------------------------------------------------
(* Response texts of the plan service and JSON.parse *)

JNum(lit) == [t |-> "num", lit |-> lit]
JStr(s) == [t |-> "str", s |-> s]
JArr(items) == [t |-> "arr", items |-> items]
JObj(fields) == [t |-> "obj", fields |-> fields]
JNull == [t |-> "null"]

\* the value of a decimal digit
DigitValue(c) == CHOOSE k \in 0..9 : NumberToString(k) = <<c>>

\* a < b or a = b for digit sequences of the same length
RECURSIVE DigitsLeq(_, _)
DigitsLeq(a, b) ==
    IF a = <<>> THEN TRUE
    ELSE IF DigitValue(a[1]) # DigitValue(b[1]) THEN DigitValue(a[1]) < DigitValue(b[1])
    ELSE DigitsLeq(Tail(a), Tail(b))

\* the digits of n + 1 from the digits of n
RECURSIVE DigitsSucc(_)
DigitsSucc(lit) ==
    IF lit = <<>> THEN <<"1">>
    ELSE IF lit[Len(lit)] = "9" THEN DigitsSucc(SubSeq(lit, 1, Len(lit) - 1)) \o <<"0">>
    ELSE SubSeq(lit, 1, Len(lit) - 1) \o NumberToString(DigitValue(lit[Len(lit)]) + 1)

\* 2^53: every integer up to it is a double, above it only every second one
TwoTo53 == <<"9", "0", "0", "7", "1", "9", "9", "2", "5", "4", "7", "4", "0", "9", "9", "2">>

\* the literal is an integer up to 2^53
SafeInteger(lit) == Len(lit) < Len(TwoTo53) \/ (Len(lit) = Len(TwoTo53) /\ DigitsLeq(lit, TwoTo53))

\* The number JSON.parse makes of an integer literal below 2^54, by the digits
\* String prints for it: the literal itself up to 2^53; above, the nearest even
\* integer, and of two equally near ones the multiple of four (the double with
\* the even significand).
DoubleOfLiteral(lit) ==
    LET n == Len(lit)
        units == DigitValue(lit[n])
        tens == DigitValue(lit[n - 1])
        below == SubSeq(lit, 1, n - 1) \o NumberToString(units - 1)
    IN IF SafeInteger(lit) \/ units % 2 = 0 THEN lit
       ELSE IF (2 * tens + units - 1) % 4 = 0 THEN below
       ELSE DigitsSucc(lit)

\* the largest number of digits of a literal kept as an integer of the model
MaxIntDigits == 9

\* JSON.parse on the syntax tree of a well-formed text; a number of more than
\* MaxIntDigits digits is kept by its digits
RECURSIVE JSONvalue(_)
JSONvalue(ast) ==
    CASE ast.t = "num" -> IF Len(ast.lit) <= MaxIntDigits THEN NumberOfLiteral(ast.lit)
                          ELSE [digits |-> DoubleOfLiteral(ast.lit)]
      [] ast.t = "str" -> ast.s
      [] ast.t = "arr" -> [i \in 1..Len(ast.items) |-> JSONvalue(ast.items[i])]
      [] ast.t = "obj" -> [f \in DOMAIN ast.fields |-> JSONvalue(ast.fields[f])]
      [] ast.t = "null" -> NULL

\* whether a JSON value is valid against a schema of the kind responseSchema is
RECURSIVE Conforms(_, _)
Conforms(ast, schema) ==
    CASE schema.type = "STRING" -> ast.t = "str"
      [] schema.type = "NUMBER" -> ast.t = "num"
      [] schema.type = "ARRAY" ->
            /\ ast.t = "arr"
            /\ \A i \in 1..Len(ast.items) : Conforms(ast.items[i], schema.items)
      [] schema.type = "OBJECT" ->
            /\ ast.t = "obj"
            /\ schema.required \subseteq DOMAIN ast.fields
            /\ \A f \in (DOMAIN ast.fields) \cap (DOMAIN schema.properties) :
                   Conforms(ast.fields[f], schema.properties[f])

\* a response text: undefined, "", a text JSON.parse rejects, or a JSON text
TextUndefined == [kind |-> "undefined"]
TextEmpty == [kind |-> "empty"]
TextGarbage == [kind |-> "garbage"]
TextJSON(ast) == [kind |-> "json", ast |-> ast]

\* !text
Falsy(text) == text.kind \in {"undefined", "empty"}

\* the text is a JSON text valid against responseSchema
SchemaValid(text) == text.kind = "json" /\ Conforms(text.ast, responseSchema)

-----------------------------------------------------------------------------
(* src/services/geminiService.ts: analyzeRenovation *)

Return(v) == [ok |-> TRUE, value |-> v]
Throw(e) == [ok |-> FALSE, error |-> e]

\* A settled generateContent call: rejected with a service error, or resolved
\* with a response.
Rejected(e) == [rejected |-> TRUE, error |-> e]
Resolved(r) == [rejected |-> FALSE, response |-> r]

\* console.error(label, error): the arguments of the call
Log(label, e) == [label |-> label, error |-> e]
NoLog == Log("none", "none")

\* a step that saves no document
NoDocument == [file |-> "none", lines |-> <<>>]

\* what the catch block of a service function logs before it rethrows
ErrorLogged(label, outcome) ==
    IF outcome.ok THEN <<>> ELSE <<Log(label, outcome.error)>>

\* the console after these calls of console.error
LastLogged(logged) == IF logged = <<>> THEN consoleLog ELSE logged[Len(logged)]

\* the errors the SDK rejects with: authentication, quota, network
ServiceErrors == {"ApiError 403", "ApiError 429", "TypeError: fetch failed"}

\* PlanResult with `text === undefined` in the place of `!text`
PlanResult_undefinedOnly(settled) ==
    IF settled.rejected THEN Throw(settled.error)
    ELSE LET text == settled.response.text
         IN IF text.kind = "undefined" THEN Throw("No response from AI")
            ELSE IF text.kind \in {"empty", "garbage"} THEN Throw("SyntaxError")
            ELSE Return(JSONvalue(text.ast))

\* PlanResult with a catch block that throws one error for every failure
PlanResult_oneError(settled) ==
    IF settled.rejected THEN Throw("No response from AI")
    ELSE LET text == settled.response.text
         IN IF Falsy(text) THEN Throw("No response from AI")
            ELSE IF text.kind = "garbage" THEN Throw("No response from AI")
            ELSE Return(JSONvalue(text.ast))

\* analyzeRenovation if it made the total cost the sum of the phases' costs
PlanResult_reconciled(settled) ==
    IF settled.rejected THEN Throw(settled.error)
    ELSE LET text == settled.response.text
             RECURSIVE sumFrom(_, _)
             sumFrom(phases, i) ==
                 IF i > Len(phases) THEN 0 ELSE phases[i].costEstimate + sumFrom(phases, i + 1)
         IN IF Falsy(text) THEN Throw("No response from AI")
            ELSE IF text.kind = "garbage" THEN Throw("SyntaxError")
            ELSE IF SchemaValid(text)
                 THEN Return([JSONvalue(text.ast) EXCEPT
                                 !.totalCost = sumFrom(JSONvalue(text.ast).phases, 1)])
            ELSE Return(JSONvalue(text.ast))

\* analyzeRenovation from the settling of `await ai.models.generateContent` on:
\* what the promise it returned settles with
PlanResult(settled) ==
    IF settled.rejected THEN Throw(settled.error)
    ELSE LET text == settled.response.text
         IN IF Falsy(text) THEN Throw("No response from AI")
            ELSE IF text.kind = "garbage" THEN Throw("SyntaxError")
            ELSE Return(JSONvalue(text.ast))

\* One invocation of analyzeRenovation, given how the service call settles:
\* the requests it sends and the outcome of the promise it returns.
analyzeRenovation(d, imgs, settled) ==
    [sent |-> <<PlanRequest(d, imgs)>>, outcome |-> PlanResult(settled),
     logged |-> ErrorLogged("Gemini Analysis Failed:", PlanResult(settled))]

-----------------------------------------------------------------------------
(* src/services/geminiService.ts: the image calls *)

ImagePrompt(description, style) ==
    <<"Photorealistic architectural visualization of a building renovation phase in Berlin.",
      "Style: ", style, ".", "Phase detail: ", description, ".",
      "Professional architectural photography, high detail, daylight, 8k resolution.">>

BlueprintPrompt(phaseName, description, style) ==
    <<"Technical architectural blueprint drawing of a building renovation phase.",
      "Phase: ", phaseName, ".", "Description: ", description, ".",
      "Building Style: ", style, ".",
      "Visual Style: Classic blueprint, white technical lines on blue background, schematic, precise, high contrast, top-down or isometric view.">>

ImageRequest(description, style, size) ==
    [model |-> "gemini-3-pro-image-preview",
     contents |-> [parts |-> <<[text |-> ImagePrompt(description, style)]>>],
     config |-> [imageConfig |-> [aspectRatio |-> "16:9", imageSize |-> size]]]

BlueprintRequest(phaseName, description, style) ==
    [model |-> "gemini-3-pro-image-preview",
     contents |-> [parts |-> <<[text |-> BlueprintPrompt(phaseName, description, style)]>>],
     config |-> [imageConfig |-> [aspectRatio |-> "16:9", imageSize |-> "1K"]]]

\* response.candidates?.[0]?.content?.parts || []
CandidateParts(response) ==
    IF "candidates" \notin DOMAIN response THEN <<>>
    ELSE IF response.candidates = <<>> THEN <<>>
    ELSE LET c == response.candidates[1]
         IN IF "content" \notin DOMAIN c THEN <<>>
            ELSE IF "parts" \notin DOMAIN c.content THEN <<>>
            ELSE c.content.parts

\* FirstInlineImage returning the last part with inlineData, and an empty data
\* URL when there is none
FirstInlineImage_last(parts, noImage) ==
    LET hits == {i \in 1..Len(parts) : "inlineData" \in DOMAIN parts[i]}
    IN IF hits = {} THEN Return(<<"data:image/png;base64,", "">>)
       ELSE LET last == CHOOSE i \in hits : \A j \in hits : i >= j
            IN Return(<<"data:image/png;base64,", parts[last].inlineData.data>>)

\* the for loop over the parts: the data URL of the first part with inlineData,
\* or the given error when the loop ends
FirstInlineImage(parts, noImage) ==
    LET hits == {i \in 1..Len(parts) : "inlineData" \in DOMAIN parts[i]}
    IN IF hits = {} THEN Throw(noImage)
       ELSE LET first == CHOOSE i \in hits : \A j \in hits : i <= j
            IN Return(<<"data:image/png;base64,", parts[first].inlineData.data>>)

\* generateRenovationImage from the settling of generateContent on
ImageResult(settled) ==
    IF settled.rejected THEN Throw(settled.error)
    ELSE FirstInlineImage(CandidateParts(settled.response), "No image generated")

\* generateBlueprintImage from the settling of generateContent on
BlueprintResult(settled) ==
    IF settled.rejected THEN Throw(settled.error)
    ELSE FirstInlineImage(CandidateParts(settled.response), "No blueprint generated")

generateRenovationImage(description, style, size, settled) ==
    [sent |-> <<ImageRequest(description, style, size)>>, outcome |-> ImageResult(settled),
     logged |-> ErrorLogged("Image Generation Failed:", ImageResult(settled))]

generateBlueprintImage(phaseName, description, style, settled) ==
    [sent |-> <<BlueprintRequest(phaseName, description, style)>>,
     outcome |-> BlueprintResult(settled),
     logged |-> ErrorLogged("Blueprint Generation Failed:", BlueprintResult(settled))]

-----------------------------------------------------------------------------
(* The inputs the model draws from *)

\* files the user can hand to the Moodboard: type is the mime type, data the
\* base64 encoding of the content
FileJpeg == [name |-> "front.jpg", type |-> <<"image/", "jpeg">>, data |-> "anBlZw"]
FilePng == [name |-> "roof.png", type |-> <<"image/", "png">>, data |-> "cG5n"]
FileText == [name |-> "notes.txt", type |-> <<"text/", "plain">>, data |-> "dHh0"]
Files == {FileJpeg, FilePng, FileText}

\* values of Math.random().toString(36).substr(2, 9)
Ids == {"k3j9x0q2a", "p0z81mm4c"}

\* reader.readAsDataURL(file): the data URL handed to onload
readAsDataURL(file) == <<"data:">> \o file.type \o <<";base64", ",", file.data>>

\* result.split(',')[1]
SplitComma1(result) ==
    LET commas == {i \in 1..Len(result) : result[i] = ","}
        first == CHOOSE i \in commas : \A j \in commas : i <= j
        later == {i \in commas : i > first}
        stop == IF later = {} THEN Len(result) + 1
                ELSE CHOOSE i \in later : \A j \in later : i <= j
    IN SubSeq(result, first + 1, stop - 1)

\* the ImageAsset that reader.onload appends for a file
ImageAsset(id, file) ==
    LET result == readAsDataURL(file)
    IN [id |-> id, file |-> file, previewUrl |-> result,
        base64 |-> SplitComma1(result), type |-> file.type]

\* the initial value of the details state
DefaultSqm == 500
DefaultBudget == 250000
DefaultDetails ==
    [address |-> <<>>, sqm |-> DefaultSqm, budget |-> DefaultBudget,
     currentEfficiency |-> "E"]

\* what the user types into the form
Addresses == {<<>>, <<"Torstrasse 45", ", ", "Berlin">>}
SqmInputs == {DefaultSqm, 80}
BudgetInputs == {DefaultBudget, 9000}
EfficiencyClasses == {"A", "B", "C", "D", "E", "F", "G", "H"}
EfficiencyInputs == {"E", "B"}

\* JSON number literal of n
Lit(n) == JNum(NumberToString(n))

PhaseFacade ==
    JObj([name |-> JStr("Facade insulation"), durationWeeks |-> Lit(10),
          costEstimate |-> Lit(90000), description |-> JStr("Insulate the street facade")])
PhaseHeating ==
    JObj([name |-> JStr("Heat pump"), durationWeeks |-> Lit(16),
          costEstimate |-> Lit(70000), description |-> JStr("Replace the gas boiler")])
PhaseWindows ==
    JObj([name |-> JStr("Windows"), durationWeeks |-> Lit(6),
          costEstimate |-> Lit(40000), description |-> JStr("Triple glazing")])

\* schema-conformant plans; totalCost and totalDuration are not the phase sums
PlanA ==
    JObj([summary |-> JStr("Insulate first, then replace the heating."),
          buildingStyle |-> JStr("Altbau"),
          phases |-> JArr(<<PhaseFacade, PhaseHeating>>),
          roiProjection |-> JArr(<<JObj([year |-> Lit(1), value |-> Lit(4)]),
                                   JObj([year |-> Lit(10), value |-> Lit(35)])>>),
          co2Savings |-> JArr(<<JObj([category |-> JStr("Heating"), savingTons |-> Lit(12),
                                      description |-> JStr("Heat pump")])>>),
          funding |-> JArr(<<JObj([name |-> JStr("KfW 261"), amount |-> JStr("Max 150k"),
                                   description |-> JStr("Efficiency house loan")])>>),
          totalCost |-> Lit(180000),
          totalDuration |-> Lit(26)])
PlanB ==
    JObj([summary |-> JStr("Replace the windows."),
          buildingStyle |-> JStr("Plattenbau"),
          phases |-> JArr(<<PhaseWindows>>),
          roiProjection |-> JArr(<<>>),
          co2Savings |-> JArr(<<>>),
          funding |-> JArr(<<>>),
          totalCost |-> Lit(40000),
          totalDuration |-> Lit(6)])

PlanC ==
    JObj([summary |-> JStr("Replace the gas boiler by a heat pump."),
          buildingStyle |-> JStr("Altbau"),
          phases |-> JArr(<<PhaseHeating>>),
          roiProjection |-> JArr(<<JObj([year |-> Lit(5), value |-> Lit(20)])>>),
          co2Savings |-> JArr(<<>>),
          funding |-> JArr(<<>>),
          totalCost |-> Lit(75000),
          totalDuration |-> Lit(16)])

\* PlanB with a total cost of 2^53 + 1 and of 2^53 + 3
PlanHuge ==
    JObj([f \in DOMAIN PlanB.fields |->
            IF f = "totalCost" THEN JNum(DigitsSucc(TwoTo53)) ELSE PlanB.fields[f]])
PlanHuger ==
    JObj([f \in DOMAIN PlanB.fields |->
            IF f = "totalCost" THEN JNum(DigitsSucc(DigitsSucc(DigitsSucc(TwoTo53))))
            ELSE PlanB.fields[f]])

\* a JSON object without one of its members
Without(obj, f) == JObj([g \in (DOMAIN obj.fields) \ {f} |-> obj.fields[g]])

\* PlanA with the first item of array member `arr` lacking member f
WithoutInItem(obj, arr, f) ==
    JObj([g \in DOMAIN obj.fields |->
            IF g = arr
            THEN JArr([i \in 1..Len(obj.fields[g].items) |->
                          IF i = 1 THEN Without(obj.fields[g].items[i], f)
                          ELSE obj.fields[g].items[i]])
            ELSE obj.fields[g]])

\* well-formed JSON texts that violate the schema
MalformedJSON ==
    {JNull}
    \cup {Without(PlanA, f) : f \in responseSchema.required}
    \cup {WithoutInItem(PlanA, "phases", f) : f \in responseSchema.properties.phases.items.required}
    \cup {WithoutInItem(PlanA, "roiProjection", "value"),
          WithoutInItem(PlanA, "co2Savings", "savingTons"),
          WithoutInItem(PlanA, "funding", "amount")}

\* every way the plan request settles
AllPlanSettles ==
    {Rejected(e) : e \in ServiceErrors}
    \cup {Resolved([text |-> t]) : t \in {TextUndefined, TextEmpty, TextGarbage}}
    \cup {Resolved([text |-> TextJSON(a)]) :
            a \in {PlanA, PlanB, PlanC, PlanHuge, PlanHuger} \cup MalformedJSON}

\* the ways the plan request settles in the application model
PlanSettles ==
    {Rejected(e) : e \in ServiceErrors}
    \cup {Resolved([text |-> t]) : t \in {TextUndefined, TextEmpty, TextGarbage}}
    \cup {Resolved([text |-> TextJSON(a)]) :
            a \in {PlanB, PlanC, Without(PlanB, "totalCost"), JNull}}

\* responses of the image model
TextPart == [text |-> "Here is the image"]
InlinePart(data) == [inlineData |-> [mimeType |-> "image/png", data |-> data]]
Candidate(parts) == [content |-> [parts |-> parts]]
ImageResponses ==
    {[promptFeedback |-> "blocked"],
     [candidates |-> <<>>],
     [candidates |-> <<[finishReason |-> "SAFETY"]>>],
     [candidates |-> <<[content |-> [role |-> "model"]]>>],
     [candidates |-> <<Candidate(<<>>)>>],
     [candidates |-> <<Candidate(<<TextPart>>)>>],
     [candidates |-> <<Candidate(<<InlinePart("iVBOR1")>>)>>],
     [candidates |-> <<Candidate(<<TextPart, InlinePart("iVBOR2"), InlinePart("iVBOR1")>>)>>],
     [candidates |-> <<Candidate(<<TextPart>>), Candidate(<<InlinePart("iVBOR1")>>)>>]}

AllImageSettles ==
    {Rejected(e) : e \in ServiceErrors} \cup {Resolved(r) : r \in ImageResponses}

ImageSettles ==
    {Rejected("ApiError 403"),
     Resolved([candidates |-> <<Candidate(<<TextPart>>)>>]),
     Resolved([candidates |-> <<Candidate(<<TextPart, InlinePart("iVBOR2"), InlinePart("iVBOR1")>>)>>])}

-----------------------------------------------------------------------------
(* The service functions applied on their own *)

Pending == [pending |-> TRUE]
Idle == [fn |-> "none"]

ImageLists ==
    {<<>>}
    \cup {<<ImageAsset("k3j9x0q2a", f)>> : f \in {FileJpeg, FilePng}}
    \cup {<<ImageAsset("k3j9x0q2a", f), ImageAsset("p0z81mm4c", g)>> :
            f \in {FileJpeg, FilePng}, g \in {FileJpeg, FilePng}}

DetailsInputs ==
    [address : Addresses, sqm : SqmInputs, budget : BudgetInputs,
     currentEfficiency : EfficiencyInputs]

Descriptions == {"Insulate the street facade", "Replace the gas boiler"}
Styles == {"Altbau", "Plattenbau"}
ImageSizes == {"1K", "2K", "4K"}

ServiceInputs ==
    [fn : {"analyzeRenovation"}, details : DetailsInputs, images : ImageLists,
     settled : AllPlanSettles]
    \cup [fn : {"generateRenovationImage"}, description : Descriptions, style : Styles,
          size : ImageSizes, settled : AllImageSettles]
    \cup [fn : {"generateBlueprintImage"}, name : {"Facade insulation"},
          description : Descriptions, style : Styles, settled : AllImageSettles]

CallAnalyzeRenovation ==
    /\ svcIn.fn = "analyzeRenovation"
    /\ svcOut = Pending
    /\ svcOut' = analyzeRenovation(svcIn.details, svcIn.images, svcIn.settled)
    /\ consoleLog' = LastLogged(svcOut'.logged)
    /\ UNCHANGED <<appVars, dashVars, reads, planCalls, assetCalls, alertMsg, aistudio, svcIn>>
    /\ saved' = NoDocument

CallGenerateRenovationImage ==
    /\ svcIn.fn = "generateRenovationImage"
    /\ svcOut = Pending
    /\ svcOut' = generateRenovationImage(svcIn.description, svcIn.style, svcIn.size,
                                         svcIn.settled)
    /\ consoleLog' = LastLogged(svcOut'.logged)
    /\ UNCHANGED <<appVars, dashVars, reads, planCalls, assetCalls, alertMsg, aistudio, svcIn>>
    /\ saved' = NoDocument

CallGenerateBlueprintImage ==
    /\ svcIn.fn = "generateBlueprintImage"
    /\ svcOut = Pending
    /\ svcOut' = generateBlueprintImage(svcIn.name, svcIn.description, svcIn.style,
                                        svcIn.settled)
    /\ consoleLog' = LastLogged(svcOut'.logged)
    /\ UNCHANGED <<appVars, dashVars, reads, planCalls, assetCalls, alertMsg, aistudio, svcIn>>
    /\ saved' = NoDocument

-----------------------------------------------------------------------------
(* src/types.ts: the App component; src/components/Moodboard.tsx *)

\* no entry of a {[key: number]: ...} state object
EmptyMap == <<>>

\* the state right after the components are constructed
AppInit ==
    /\ step = 1
    /\ isLoading = FALSE
    /\ error = NoError
    /\ images = <<>>
    /\ details = DefaultDetails
    /\ plan = NULL
    /\ crashed = FALSE

DashboardInit ==
    /\ imageSize = "1K"
    /\ phaseImages = EmptyMap
    /\ generatingPhase = EmptyMap
    /\ blueprints = EmptyMap
    /\ generatingBlueprint = EmptyMap

CallsInit ==
    /\ reads = <<>>
    /\ planCalls = EmptyBag
    /\ assetCalls = EmptyBag
    /\ alertMsg = "none"
    /\ consoleLog = NoLog
    /\ saved = NoDocument

Init ==
    /\ AppInit
    /\ DashboardInit
    /\ CallsInit
    /\ aistudio \in {"absent", "noKey", "hasKey"}
    /\ svcIn = Idle
    /\ svcOut = Pending

\* the form of step 1 with a photo uploaded and an address typed
FormFilled ==
    /\ step = 1
    /\ isLoading = FALSE
    /\ error = NoError
    /\ images = <<ImageAsset("k3j9x0q2a", FileJpeg)>>
    /\ details = [DefaultDetails EXCEPT !.address = <<"Torstrasse 45", ", ", "Berlin">>]
    /\ plan = NULL
    /\ crashed = FALSE
    /\ DashboardInit
    /\ CallsInit
    /\ aistudio \in {"absent", "noKey", "hasKey"}
    /\ svcIn = Idle
    /\ svcOut = Pending

\* the Dashboard right after a plan with two phases was generated
DashInit ==
    /\ step = 3
    /\ isLoading = FALSE
    /\ error = NoError
    /\ images = <<ImageAsset("k3j9x0q2a", FileJpeg)>>
    /\ details = [DefaultDetails EXCEPT !.address = <<"Torstrasse 45", ", ", "Berlin">>]
    /\ plan = JSONvalue(PlanA)
    /\ crashed = FALSE
    /\ DashboardInit
    /\ CallsInit
    /\ aistudio \in {"absent", "noKey", "hasKey"}
    /\ svcIn = Idle
    /\ svcOut = Pending

SvcInit ==
    /\ AppInit
    /\ DashboardInit
    /\ CallsInit
    /\ aistudio = "absent"
    /\ svcIn \in ServiceInputs
    /\ svcOut = Pending

\* a sequence without its i-th element
RemoveAt(seq, i) == SubSeq(seq, 1, i - 1) \o SubSeq(seq, i + 1, Len(seq))

\* The calls in flight are bags: several calls with the same arguments can be
\* in flight, and each settles on its own, in any order.
Add(bag, c) == bag (+) SetToBag({c})
Remove(bag, c) == bag (-) SetToBag({c})
InFlight == BagCardinality(planCalls) + BagCardinality(assetCalls)

\* file.type.startsWith('image/')
IsImageType(type) == Len(type) >= 1 /\ type[1] = "image/"

\* Button: the disabled attribute of the rendered <button>:
\* disabled={isLoading || props.disabled} followed by {...props}
Button_disabled(loading, props) ==
    IF "disabled" \in DOMAIN props THEN props.disabled
    ELSE loading

\* <Dashboard> is rendered: step === 3 && plan
DashboardShown == step = 3 /\ plan # NULL /\ ~crashed

\* the render of Dashboard does not throw on this plan: it calls
\* plan.totalCost.toLocaleString(), plan.phases.map, phase.costEstimate
\* .toLocaleString(), plan.co2Savings.map and plan.funding.map
DashboardRenders(p) ==
    /\ {"totalCost", "phases", "co2Savings", "funding"} \subseteq DOMAIN p
    /\ \A i \in 1..Len(p.phases) : "costEstimate" \in DOMAIN p.phases[i]

\* an unmount that keeps the images, as state held by App would be
UnmountDashboard_keepsImages ==
    /\ imageSize' = "1K"
    /\ generatingPhase' = EmptyMap
    /\ generatingBlueprint' = EmptyMap
    /\ UNCHANGED <<phaseImages, blueprints>>
    /\ assetCalls' =
          [d \in {[c EXCEPT !.live = FALSE] : c \in BagToSet(assetCalls)} |->
              CopiesIn(d, assetCalls) + CopiesIn([d EXCEPT !.live = TRUE], assetCalls)]

\* Dashboard is unmounted: its state is dropped, and the calls it has in flight
\* will set the state of a component that is gone
UnmountDashboard ==
    /\ imageSize' = "1K"
    /\ phaseImages' = EmptyMap
    /\ generatingPhase' = EmptyMap
    /\ blueprints' = EmptyMap
    /\ generatingBlueprint' = EmptyMap
    /\ assetCalls' =
          [d \in {[c EXCEPT !.live = FALSE] : c \in BagToSet(assetCalls)} |->
              CopiesIn(d, assetCalls) + CopiesIn([d EXCEPT !.live = TRUE], assetCalls)]

\* the files of a list that pass `if (!file.type.startsWith('image/')) return`
ReadsStarted(files) ==
    LET isImage(f) == IsImageType(f.type)
    IN SelectSeq(files, isImage)

\* the images in the list and the reads in flight stay within a bound when the
\* files are read
Room(files, max) == Len(images) + Len(reads) + Len(ReadsStarted(files)) <= max

\* processFiles(files): one FileReader per file with an image mime type
processFiles(files) ==
    LET started == ReadsStarted(files)
    IN /\ step = 1 /\ ~crashed
       /\ reads' = reads \o started
       /\ UNCHANGED <<appVars, dashVars, planCalls,
                      assetCalls, alertMsg, consoleLog, aistudio, svcVars>>
       /\ saved' = NoDocument

\* reader.onload with setImages(prev => [asset, ...prev])
ReaderOnload_prepends(i, id) ==
    /\ i \in 1..Len(reads)
    /\ reads' = RemoveAt(reads, i)
    /\ images' = IF crashed THEN images ELSE <<ImageAsset(id, reads[i])>> \o images
    /\ UNCHANGED <<step, isLoading, error, details, plan, crashed, dashVars, planCalls,
                   assetCalls, alertMsg, consoleLog, aistudio, svcVars>>
    /\ saved' = NoDocument

\* reader.onload of the i-th read in flight: setImages(prev => [...prev, asset])
ReaderOnload(i, id) ==
    /\ i \in 1..Len(reads)
    /\ reads' = RemoveAt(reads, i)
    /\ images' = IF crashed THEN images ELSE Append(images, ImageAsset(id, reads[i]))
    /\ UNCHANGED <<step, isLoading, error, details, plan, crashed, dashVars, planCalls,
                   assetCalls, alertMsg, consoleLog, aistudio, svcVars>>
    /\ saved' = NoDocument

\* the Moodboard renders a tile, with its remove button, for an image of this id
HasTile(id) == \E i \in 1..Len(images) : images[i].id = id

\* removeImage that removes the first image of the id only
removeImage_first(id) ==
    LET first == CHOOSE i \in 1..Len(images) :
                     images[i].id = id /\ \A j \in 1..(i - 1) : images[j].id # id
    IN /\ step = 1 /\ ~crashed
       /\ images' = IF HasTile(id) THEN RemoveAt(images, first) ELSE images
       /\ UNCHANGED <<step, isLoading, error, details, plan, crashed, dashVars,
                      callVars, svcVars>>
       /\ saved' = NoDocument

\* removeImage(id): setImages(prev => prev.filter(img => img.id !== id))
removeImage(id) ==
    LET keep(img) == img.id # id
    IN /\ step = 1 /\ ~crashed
       /\ images' = SelectSeq(images, keep)
       /\ UNCHANGED <<step, isLoading, error, details, plan, crashed, dashVars,
                      callVars, svcVars>>
       /\ saved' = NoDocument

\* the onChange handlers of the form: setDetails({...details, [field]: value})
setDetails(field, value) ==
    /\ step = 1 /\ ~crashed
    /\ details' = [details EXCEPT ![field] = value]
    /\ UNCHANGED <<step, isLoading, error, images, plan, crashed, dashVars, callVars, svcVars>>
    /\ saved' = NoDocument

\* What rendering does after App's state changed: a Dashboard render that throws
\* tears the tree down (there is no error boundary), and a Dashboard that is no
\* longer rendered is unmounted.
Render ==
    /\ crashed' = (crashed \/ (step' = 3 /\ plan' # NULL /\ ~DashboardRenders(plan')))
    /\ IF DashboardShown /\ ~(step' = 3 /\ plan' # NULL /\ ~crashed')
       THEN UnmountDashboard
       ELSE UNCHANGED <<dashVars, assetCalls>>

\* handleAnalysis without the validation of the address
handleAnalysis_noAddressCheck ==
    IF Len(images) = 0
    THEN /\ error' = "Please upload at least one image."
         /\ UNCHANGED <<step, isLoading, images, details, plan, crashed, dashVars,
                        callVars, svcVars>>
         /\ saved' = NoDocument
    ELSE /\ InFlight < MaxPending
         /\ isLoading' = TRUE
         /\ error' = NoError
         /\ planCalls' = Add(planCalls, [sent |-> <<PlanRequest(details, images)>>])
         /\ UNCHANGED <<step, images, details, plan, crashed, dashVars, reads,
                        assetCalls, alertMsg, consoleLog, aistudio, svcVars>>
         /\ saved' = NoDocument

\* handleAnalysis up to its await: the two validations, then the request
handleAnalysis ==
    IF Len(images) = 0
    THEN /\ error' = "Please upload at least one image."
         /\ UNCHANGED <<step, isLoading, images, details, plan, crashed, dashVars,
                        callVars, svcVars>>
         /\ saved' = NoDocument
    ELSE IF details.address = <<>>
    THEN /\ error' = "Please enter an address."
         /\ UNCHANGED <<step, isLoading, images, details, plan, crashed, dashVars,
                        callVars, svcVars>>
         /\ saved' = NoDocument
    ELSE /\ InFlight < MaxPending
         /\ isLoading' = TRUE
         /\ error' = NoError
         /\ planCalls' = Add(planCalls, [sent |-> <<PlanRequest(details, images)>>])
         /\ UNCHANGED <<step, images, details, plan, crashed, dashVars, reads,
                        assetCalls, alertMsg, consoleLog, aistudio, svcVars>>
         /\ saved' = NoDocument

\* the Generate Plan button of step 1 is clicked
ClickGeneratePlan ==
    /\ step = 1 /\ ~crashed
    /\ ~Button_disabled(isLoading,
                        [disabled |-> (details.address = <<>> \/ Len(images) = 0)])
    /\ handleAnalysis

\* handleAnalysis invoked whatever the button's disabled attribute says
InvokeHandleAnalysis ==
    /\ step = 1 /\ ~crashed
    /\ handleAnalysis

\* the catch block of handleAnalysis: the message set for the error caught
handleAnalysis_catch(err) ==
    "Failed to generate plan. Please try again or check your API Key."

\* AnalysisSettles that sends the request once more when the call failed
AnalysisSettles_retry(c, settled) ==
    LET outcome == PlanResult(settled)
    IN /\ BagIn(c, planCalls)
       /\ consoleLog' = LastLogged(ErrorLogged("Gemini Analysis Failed:", outcome))
       /\ IF ~outcome.ok /\ Len(c.sent) = 1
          THEN /\ planCalls' = Add(Remove(planCalls, c),
                                   [c EXCEPT !.sent = c.sent \o c.sent])
               /\ UNCHANGED <<appVars, dashVars, assetCalls>>
          ELSE /\ planCalls' = Remove(planCalls, c)
               /\ IF crashed
                  THEN UNCHANGED <<appVars, dashVars, assetCalls>>
                  ELSE /\ IF outcome.ok
                          THEN /\ plan' = outcome.value
                               /\ step' = 3
                               /\ error' = error
                          ELSE /\ error' = handleAnalysis_catch(outcome.error)
                               /\ UNCHANGED <<plan, step>>
                       /\ isLoading' = FALSE
                       /\ UNCHANGED <<images, details>>
                       /\ Render
       /\ UNCHANGED <<reads, alertMsg, aistudio, svcVars>>
       /\ saved' = NoDocument

\* handleAnalysis from its await on, for call c in flight: try, catch, finally;
\* analyzeRenovation has logged the error it rethrows
AnalysisSettles(c, settled) ==
    LET outcome == PlanResult(settled)
    IN /\ BagIn(c, planCalls)
       /\ planCalls' = Remove(planCalls, c)
       /\ consoleLog' = LastLogged(ErrorLogged("Gemini Analysis Failed:", outcome))
       /\ IF crashed
          THEN UNCHANGED <<appVars, dashVars, assetCalls>>
          ELSE /\ IF outcome.ok
                  THEN /\ plan' = outcome.value
                       /\ step' = 3
                       /\ error' = error
                  ELSE /\ error' = handleAnalysis_catch(outcome.error)
                       /\ UNCHANGED <<plan, step>>
               /\ isLoading' = FALSE
               /\ UNCHANGED <<images, details>>
               /\ Render
       /\ UNCHANGED <<reads, alertMsg, aistudio, svcVars>>
       /\ saved' = NoDocument

\* handleReset, the onReset of the Dashboard
handleReset ==
    /\ DashboardShown
    /\ step' = 1
    /\ images' = <<>>
    /\ plan' = NULL
    /\ details' = [address |-> <<>>, sqm |-> 500, budget |-> 250000,
                   currentEfficiency |-> "E"]
    /\ UNCHANGED <<isLoading, error>>
    /\ Render
    /\ UNCHANGED <<reads, planCalls, alertMsg, consoleLog, aistudio, svcVars>>
    /\ saved' = NoDocument

-----------------------------------------------------------------------------
(* src/unnamed/part_000: the Dashboard component *)

\* flags[key] is truthy, for generatingPhase and generatingBlueprint
Truthy(flags, key) == key \in DOMAIN flags /\ flags[key]

\* urls[key] is truthy, for phaseImages and blueprints: the strings the handlers
\* store start with "data:image/png;base64," and are never empty
HasImage(urls, key) == key \in DOMAIN urls

\* {...prev, [key]: value}
With(prev, key, value) == (key :> value) @@ prev

\* a property of an object, the token "undefined" when it is absent
Prop(obj, f) == IF f \in DOMAIN obj THEN obj[f] ELSE "undefined"

\* the indices of the phases the Dashboard renders
PhaseIndices == IF DashboardShown THEN 0..(Len(plan.phases) - 1) ELSE {}

\* n.toLocaleString(): the digits of n grouped as the locale of the host does
toLocaleString(n) == <<"toLocaleString(">> \o NumberToString(n) \o <<")">>

\* doc.splitTextToSize(text, width): the texts of the plans are short enough
\* for one line
splitTextToSize(text) == <<text>>

\* the lines handleExport draws into the document, in order; EUR stands for
\* the euro sign
ExportLines(p, d) ==
    LET phaseLines(i) ==
            <<NumberToString(i) \o <<". ", p.phases[i].name, " (">>
                  \o NumberToString(p.phases[i].durationWeeks) \o <<" weeks)">>,
              <<"Est: EUR">> \o toLocaleString(p.phases[i].costEstimate),
              splitTextToSize(p.phases[i].description)>>
        fundLine(i) == <<"[", p.funding[i].name, "] ", p.funding[i].amount>>
        RECURSIVE phasesFrom(_)
        phasesFrom(i) == IF i > Len(p.phases) THEN <<>>
                         ELSE phaseLines(i) \o phasesFrom(i + 1)
    IN <<<<"Reno | Renovation Plan">>,
         <<"Address: ">> \o d.address,
         <<"Est. Cost: EUR">> \o toLocaleString(p.totalCost),
         <<"Duration: ">> \o NumberToString(p.totalDuration) \o <<" Weeks">>,
         <<"Executive Summary">>,
         splitTextToSize(p.summary),
         <<"Project Phases">>>>
       \o phasesFrom(1)
       \o <<<<"Eligible Funding">>>>
       \o [i \in 1..Len(p.funding) |-> fundLine(i)]

\* handleExport that sorts the phases of the plan in place, cheapest first
handleExport_sortsPhases ==
    /\ DashboardShown
    /\ saved' = [file |-> "reno-plan.pdf", lines |-> ExportLines(plan, details)]
    /\ plan' = [plan EXCEPT !.phases =
                   IF Len(@) = 2 /\ @[1].costEstimate > @[2].costEstimate
                   THEN <<@[2], @[1]>> ELSE @]
    /\ UNCHANGED <<step, isLoading, error, images, details, crashed, dashVars, callVars,
                   svcVars>>

\* handleExport, the onClick of the Export PDF button: doc.save("reno-plan.pdf")
handleExport ==
    /\ DashboardShown
    /\ saved' = [file |-> "reno-plan.pdf", lines |-> ExportLines(plan, details)]
    /\ UNCHANGED <<appVars, dashVars, callVars, svcVars>>

\* the onChange of the image quality select
setImageSize(v) ==
    /\ DashboardShown
    /\ imageSize' = v
    /\ UNCHANGED <<appVars, phaseImages, generatingPhase, blueprints, generatingBlueprint,
                   callVars, svcVars>>
    /\ saved' = NoDocument

\* checkApiKey that asks the host whether the hook is there or not
checkApiKey_pc_alwaysAsks == "hasSelectedApiKey"

\* a handler enters checkApiKey: without the host hook it returns true at once,
\* with it the handler awaits hasSelectedApiKey()
checkApiKey_pc == IF aistudio = "absent" THEN "request" ELSE "hasSelectedApiKey"

\* SetGenerating with ({[index]: value}) in the place of ({...prev, [index]: value})
SetGenerating_dropsOthers(c, value) ==
    IF ~c.live THEN UNCHANGED <<generatingPhase, generatingBlueprint>>
    ELSE IF c.kind = "image"
    THEN /\ generatingPhase' = (c.index :> value)
         /\ UNCHANGED generatingBlueprint
    ELSE /\ generatingBlueprint' = (c.index :> value)
         /\ UNCHANGED generatingPhase

\* setGeneratingPhase / setGeneratingBlueprint(prev => ({...prev, [index]: value}))
\* of call c; a component that was unmounted ignores it
SetGenerating(c, value) ==
    IF ~c.live THEN UNCHANGED <<generatingPhase, generatingBlueprint>>
    ELSE IF c.kind = "image"
    THEN /\ generatingPhase' = With(generatingPhase, c.index, value)
         /\ UNCHANGED generatingBlueprint
    ELSE /\ generatingBlueprint' = With(generatingBlueprint, c.index, value)
         /\ UNCHANGED generatingPhase

\* handleGenerateImage(index, description) up to its first await that takes time
handleGenerateImage(index, description) ==
    LET c == [kind |-> "image", index |-> index, pc |-> checkApiKey_pc, live |-> TRUE,
              args |-> [description |-> description, style |-> Prop(plan, "buildingStyle"),
                        size |-> imageSize]]
    IN /\ InFlight < MaxPending
       /\ assetCalls' = Add(assetCalls, c)
       /\ IF c.pc = "request" THEN SetGenerating(c, TRUE)
          ELSE UNCHANGED <<generatingPhase, generatingBlueprint>>
       /\ UNCHANGED <<appVars, imageSize, phaseImages, blueprints, reads, planCalls,
                      alertMsg, consoleLog, aistudio, svcVars>>
       /\ saved' = NoDocument

\* handleGenerateBlueprint(index, name, description) up to its first await that takes time
handleGenerateBlueprint(index, name, description) ==
    LET c == [kind |-> "blueprint", index |-> index, pc |-> checkApiKey_pc, live |-> TRUE,
              args |-> [name |-> name, description |-> description,
                        style |-> Prop(plan, "buildingStyle")]]
    IN /\ InFlight < MaxPending
       /\ assetCalls' = Add(assetCalls, c)
       /\ IF c.pc = "request" THEN SetGenerating(c, TRUE)
          ELSE UNCHANGED <<generatingPhase, generatingBlueprint>>
       /\ UNCHANGED <<appVars, imageSize, phaseImages, blueprints, reads, planCalls,
                      alertMsg, consoleLog, aistudio, svcVars>>
       /\ saved' = NoDocument

\* the Visualize Phase button of phase idx is clicked: it is rendered while the
\* phase has no image, with isLoading={generatingPhase[idx]} and no disabled prop
ClickVisualize(idx) ==
    /\ idx \in PhaseIndices
    /\ ~HasImage(phaseImages, idx)
    /\ ~Button_disabled(Truthy(generatingPhase, idx), [variant |-> "secondary"])
    /\ handleGenerateImage(idx, Prop(plan.phases[idx + 1], "description"))

\* the Generate Blueprint button of phase idx is clicked
ClickBlueprint(idx) ==
    /\ idx \in PhaseIndices
    /\ ~HasImage(blueprints, idx)
    /\ ~Button_disabled(Truthy(generatingBlueprint, idx), [variant |-> "outline"])
    /\ handleGenerateBlueprint(idx, Prop(plan.phases[idx + 1], "name"),
                               Prop(plan.phases[idx + 1], "description"))

\* checkApiKey: hasSelectedApiKey() of call c settles
HasSelectedApiKeySettles(c, rejects) ==
    /\ BagIn(c, assetCalls)
    /\ c.pc = "hasSelectedApiKey"
    /\ IF rejects
       THEN /\ assetCalls' = Remove(assetCalls, c)
            /\ UNCHANGED <<generatingPhase, generatingBlueprint>>
       ELSE IF aistudio = "hasKey"
       THEN /\ assetCalls' = Add(Remove(assetCalls, c), [c EXCEPT !.pc = "request"])
            /\ SetGenerating(c, TRUE)
       ELSE /\ assetCalls' = Add(Remove(assetCalls, c), [c EXCEPT !.pc = "openSelectKey"])
            /\ UNCHANGED <<generatingPhase, generatingBlueprint>>
    /\ UNCHANGED <<appVars, imageSize, phaseImages, blueprints, reads, planCalls,
                   alertMsg, consoleLog, aistudio, svcVars>>
    /\ saved' = NoDocument

\* checkApiKey that returns true from its catch block too
OpenSelectKeySettles_proceeds(c, rejects) ==
    /\ BagIn(c, assetCalls)
    /\ c.pc = "openSelectKey"
    /\ assetCalls' = Add(Remove(assetCalls, c), [c EXCEPT !.pc = "request"])
    /\ SetGenerating(c, TRUE)
    /\ IF rejects
       THEN /\ consoleLog' = Log("Failed to select key", "dialog rejected")
            /\ UNCHANGED aistudio
       ELSE /\ aistudio' = "hasKey"
            /\ UNCHANGED consoleLog
    /\ UNCHANGED <<appVars, imageSize, phaseImages, blueprints, reads, planCalls,
                   alertMsg, svcVars>>
    /\ saved' = NoDocument

\* checkApiKey: openSelectKey() of call c settles; it resolves when the user
\* has picked a key
OpenSelectKeySettles(c, rejects) ==
    /\ BagIn(c, assetCalls)
    /\ c.pc = "openSelectKey"
    /\ IF rejects
       THEN /\ assetCalls' = Remove(assetCalls, c)
            /\ consoleLog' = Log("Failed to select key", "dialog rejected")
            /\ UNCHANGED <<generatingPhase, generatingBlueprint, aistudio>>
       ELSE /\ assetCalls' = Add(Remove(assetCalls, c), [c EXCEPT !.pc = "request"])
            /\ SetGenerating(c, TRUE)
            /\ aistudio' = "hasKey"
            /\ UNCHANGED consoleLog
    /\ UNCHANGED <<appVars, imageSize, phaseImages, blueprints, reads, planCalls,
                   alertMsg, svcVars>>
    /\ saved' = NoDocument

\* the outcome of the service function of call c
AssetOutcome(c, settled) ==
    IF c.kind = "image"
    THEN generateRenovationImage(c.args.description, c.args.style, c.args.size, settled).outcome
    ELSE generateBlueprintImage(c.args.name, c.args.description, c.args.style, settled).outcome

\* the try block of the handlers after the await: the image is stored
AssetStored(c, url) ==
    IF ~c.live THEN UNCHANGED <<phaseImages, blueprints>>
    ELSE IF c.kind = "image"
    THEN /\ phaseImages' = With(phaseImages, c.index, url)
         /\ UNCHANGED blueprints
    ELSE /\ blueprints' = With(blueprints, c.index, url)
         /\ UNCHANGED phaseImages

\* AssetFailed that stores an empty data URL for the phase
AssetFailed_placeholder(c, err) ==
    /\ consoleLog' = Log(IF c.kind = "image" THEN "Failed to generate image"
                         ELSE "Failed to generate blueprint", err)
    /\ alertMsg' = IF c.kind = "image"
                   THEN "Could not generate image. Please ensure you have a valid paid API key selected."
                   ELSE "Could not generate blueprint."
    /\ IF c.kind = "image"
       THEN /\ phaseImages' = With(phaseImages, c.index, <<"data:image/png;base64,", "">>)
            /\ UNCHANGED blueprints
       ELSE /\ blueprints' = With(blueprints, c.index, <<"data:image/png;base64,", "">>)
            /\ UNCHANGED phaseImages

\* the catch block of the handlers, for the error caught
AssetFailed(c, err) ==
    /\ consoleLog' = Log(IF c.kind = "image" THEN "Failed to generate image"
                         ELSE "Failed to generate blueprint", err)
    /\ alertMsg' = IF c.kind = "image"
                   THEN "Could not generate image. Please ensure you have a valid paid API key selected."
                   ELSE "Could not generate blueprint."
    /\ UNCHANGED <<phaseImages, blueprints>>

\* AssetSettles without the finally block: the flag is cleared after the try
\* block only
AssetSettles_noFinally(c, settled) ==
    LET outcome == AssetOutcome(c, settled)
    IN /\ BagIn(c, assetCalls)
       /\ c.pc = "request"
       /\ assetCalls' = Remove(assetCalls, c)
       /\ IF outcome.ok
          THEN /\ AssetStored(c, outcome.value)
               /\ SetGenerating(c, FALSE)
               /\ UNCHANGED <<alertMsg, consoleLog>>
          ELSE /\ AssetFailed(c, outcome.error)
               /\ UNCHANGED <<generatingPhase, generatingBlueprint>>
       /\ UNCHANGED <<appVars, imageSize, reads, planCalls,
                      aistudio, svcVars>>
       /\ saved' = NoDocument

\* handleGenerateImage / handleGenerateBlueprint from the await of the service
\* call on, for call c in flight: try, catch, finally
AssetSettles(c, settled) ==
    LET outcome == AssetOutcome(c, settled)
    IN /\ BagIn(c, assetCalls)
       /\ c.pc = "request"
       /\ assetCalls' = Remove(assetCalls, c)
       /\ IF outcome.ok
          THEN AssetStored(c, outcome.value) /\ UNCHANGED <<alertMsg, consoleLog>>
          ELSE AssetFailed(c, outcome.error)
       /\ SetGenerating(c, FALSE)
       /\ UNCHANGED <<appVars, imageSize, reads, planCalls,
                      aistudio, svcVars>>
       /\ saved' = NoDocument

-----------------------------------------------------------------------------
(* The specifications *)

\* what the application model draws from
AppFiles == {FileJpeg, FileText}
FileLists == {<<f>> : f \in AppFiles} \cup {<<f, g>> : f \in AppFiles, g \in AppFiles}
DetailEdits == {<<"address", v>> : v \in Addresses}
AppImageSizes == {"1K", "2K"}

AppNext ==
    \/ \E files \in FileLists : Room(files, MaxImages) /\ processFiles(files)
    \/ \E i \in 1..MaxImages, id \in Ids : ReaderOnload(i, id)
    \/ \E id \in Ids : HasTile(id) /\ removeImage(id)
    \/ \E e \in DetailEdits : setDetails(e[1], e[2])
    \/ ClickGeneratePlan
    \/ \E c \in BagToSet(planCalls), s \in PlanSettles : AnalysisSettles(c, s)
    \/ handleReset

\* the image and blueprint calls of the Dashboard
DashboardCalls ==
    \/ \E idx \in PhaseIndices : ClickVisualize(idx)
    \/ \E idx \in PhaseIndices : ClickBlueprint(idx)
    \/ \E c \in BagToSet(assetCalls), r \in BOOLEAN : HasSelectedApiKeySettles(c, r)
    \/ \E c \in BagToSet(assetCalls), r \in BOOLEAN : OpenSelectKeySettles(c, r)
    \/ \E c \in BagToSet(assetCalls), s \in ImageSettles : AssetSettles(c, s)

\* the handlers of the Dashboard that change its state; handleExport, which
\* changes none, is among DashboardOps
DashboardNext ==
    \/ \E v \in AppImageSizes : setImageSize(v)
    \/ DashboardCalls

Next == AppNext \/ DashboardNext

\* the application
Spec == Init /\ [][Next]_vars

\* the App component and the Moodboard; of the Dashboard only its reset button
SpecApp == Init /\ [][AppNext]_vars

\* the same, with handleAnalysis also invoked whatever the button's state
SpecHandlers == Init /\ [][AppNext \/ InvokeHandleAnalysis]_vars

\* the plan, image and blueprint calls, and the reset
GenerationCalls ==
    \/ ClickGeneratePlan
    \/ \E c \in BagToSet(planCalls), s \in PlanSettles : AnalysisSettles(c, s)
    \/ DashboardCalls
    \/ handleReset

\* the generation calls from the form filled in: one photo, an address
SpecGeneration == FormFilled /\ [][GenerationCalls]_vars

\* the ways a plan call and an image or blueprint call fail
FailingPlanSettles == {s \in PlanSettles : ~PlanResult(s).ok}
FailingImageSettles == {s \in ImageSettles : ~ImageResult(s).ok}

\* the continuation of handleAnalysis after a call that failed
AnalysisFails ==
    \E c \in BagToSet(planCalls), s \in FailingPlanSettles : AnalysisSettles(c, s)

\* the continuation of handleGenerateImage or handleGenerateBlueprint after a
\* call for phase i that failed
AssetFails(kind, i) ==
    \E c \in BagToSet(assetCalls), s \in FailingImageSettles :
        c.kind = kind /\ c.index = i /\ AssetSettles(c, s)

\* the generation calls while the service fails every request
RetryNext ==
    \/ ClickGeneratePlan
    \/ AnalysisFails
    \/ \E idx \in PhaseIndices : ClickVisualize(idx)
    \/ \E idx \in PhaseIndices : ClickBlueprint(idx)
    \/ \E c \in BagToSet(assetCalls), r \in BOOLEAN : HasSelectedApiKeySettles(c, r)
    \/ \E c \in BagToSet(assetCalls), r \in BOOLEAN : OpenSelectKeySettles(c, r)
    \/ \E kind \in {"image", "blueprint"}, i \in {0, 1} : AssetFails(kind, i)

\* The form filled in, or the Dashboard of a plan, while the service fails every
\* request. A call in flight is a request whose rejection is on its way; the
\* event loop runs the continuation of every promise that has settled, hence
\* the weak fairness of the continuations. No fairness is stated for the clicks.
SpecRetry ==
    /\ FormFilled \/ DashInit
    /\ [][RetryNext]_vars
    /\ WF_vars(AnalysisFails)
    /\ \A kind \in {"image", "blueprint"}, i \in {0, 1} : WF_vars(AssetFails(kind, i))

\* the file lists dropped on the Moodboard: the photo of the front is ahead of
\* the photo of the roof in every list
MoodFileLists == {<<FileJpeg, FileText, FilePng>>, <<FileJpeg>>, <<FileText>>}

MoodboardNext ==
    \/ \E files \in MoodFileLists : Room(files, MaxFiles) /\ processFiles(files)
    \/ \E i \in 1..MaxFiles, id \in Ids : ReaderOnload(i, id)
    \/ \E id \in Ids : removeImage(id)

\* the Moodboard: files are dropped, their reads complete in any order, and
\* removeImage is called with any identifier
SpecMoodboard == Init /\ [][MoodboardNext]_vars

\* the Dashboard of a plan with two phases, at the image quality it starts with
SpecDashboard == DashInit /\ [][DashboardCalls \/ handleReset]_vars

\* the four operations of the Dashboard
DashboardOps ==
    \/ \E v \in AppImageSizes : setImageSize(v)
    \/ handleExport
    \/ \E idx \in PhaseIndices : ClickVisualize(idx)
    \/ \E idx \in PhaseIndices : ClickBlueprint(idx)
    \/ \E c \in BagToSet(assetCalls), s \in ImageSettles : AssetSettles(c, s)

\* the Dashboard of a plan with two phases outside AI Studio, where
\* window.aistudio is absent
DashInitNoHook == DashInit /\ aistudio = "absent"

SpecDashboardOps == DashInitNoHook /\ [][DashboardOps]_vars

SvcNext ==
    \/ CallAnalyzeRenovation
    \/ CallGenerateRenovationImage
    \/ CallGenerateBlueprintImage

\* the three service functions, each applied once to an input
SpecService == SvcInit /\ [][SvcNext]_vars

-----------------------------------------------------------------------------
(* The claims about analyzeRenovation and handleAnalysis *)

\* a response text that is neither empty nor valid against responseSchema
Malformed(settled) ==
    /\ ~settled.rejected
    /\ ~Falsy(settled.response.text)
    /\ ~SchemaValid(settled.response.text)

\* C1: whenever the plan call of handleAnalysis settles with a response text
\* that JSON.parse rejects or that lacks a field the schema requires,
\* analyzeRenovation throws and the plan state keeps its value, so no partly
\* populated plan is ever stored.
C1_MalformedNeverStored ==
    [][\A c \in BagToSet(planCalls), s \in PlanSettles :
           (AnalysisSettles(c, s) /\ Malformed(s))
               => (~PlanResult(s).ok /\ plan' = plan)]_vars

\* C2: whenever the plan call settles with a response whose text is undefined
\* or empty, analyzeRenovation throws Error("No response from AI"), which it
\* logs, and plan and step keep their values.
C2_EmptyResponse ==
    [][\A c \in BagToSet(planCalls), t \in {TextUndefined, TextEmpty} :
           AnalysisSettles(c, Resolved([text |-> t]))
               => /\ PlanResult(Resolved([text |-> t])) = Throw("No response from AI")
                  /\ consoleLog' = Log("Gemini Analysis Failed:", "No response from AI")
                  /\ plan' = plan
                  /\ step' = step]_vars

\* an empty response was handled: its error is the last one logged, the failure
\* message is shown and there is still no plan
C2_Witness ==
    /\ consoleLog = Log("Gemini Analysis Failed:", "No response from AI")
    /\ error = handleAnalysis_catch("No response from AI")
    /\ plan = NULL
    /\ step = 1
    /\ ~isLoading

\* the cause of a failed plan call, and the cause an error value tells
CauseOf(settled) ==
    IF settled.rejected THEN "service"
    ELSE IF Falsy(settled.response.text) THEN "empty"
    ELSE "malformed"

CauseToldBy(err) ==
    IF err = "No response from AI" THEN "empty"
    ELSE IF err = "SyntaxError" THEN "malformed"
    ELSE "service"

FailedSettles == {s \in PlanSettles : ~PlanResult(s).ok}

C4_ValidationOnly ==
    [][(InvokeHandleAnalysis /\ (Len(images) = 0 \/ details.address = <<>>))
           => /\ error' = IF Len(images) = 0 THEN "Please upload at least one image."
                          ELSE "Please enter an address."
              /\ planCalls' = planCalls
              /\ UNCHANGED <<step, isLoading, images, details, plan>>]_vars

\* the address validation has acted on a non-empty image list
C4_Witness ==
    /\ error = "Please enter an address."
    /\ Len(images) > 0
    /\ details.address = <<>>
    /\ planCalls = EmptyBag

\* C5: an invocation of handleAnalysis that passes validation sends one
\* request, and when its call settles, with a plan or with a failure, the
\* invocation ends without another request.
C5_OneRequestPerInvocation ==
    [][/\ \A c \in BagToSet(planCalls') : Len(c.sent) = 1
       /\ ClickGeneratePlan
             => BagCardinality(planCalls') = BagCardinality(planCalls) + 1
       /\ \A c \in BagToSet(planCalls), s \in PlanSettles :
             AnalysisSettles(c, s) => planCalls' = Remove(planCalls, c)]_vars

\* a plan call has failed and no request is in flight
C5_Witness ==
    /\ consoleLog.label = "Gemini Analysis Failed:"
    /\ error = handleAnalysis_catch(consoleLog.error)
    /\ ~isLoading
    /\ planCalls = EmptyBag
    /\ Len(images) > 0

-----------------------------------------------------------------------------
(* The claims about the requests and the image calls *)

\* haystack.includes(needle) on token sequences
Contains(hay, needle) ==
    \E i \in 1..(Len(hay) - Len(needle) + 1) :
        SubSeq(hay, i, i + Len(needle) - 1) = needle

\* the decimal digits of the numbers the form takes, written out
Decimal(n) ==
    CASE n = 500 -> <<"5", "0", "0">>
      [] n = 80 -> <<"8", "0">>
      [] n = 250000 -> <<"2", "5", "0", "0", "0", "0">>
      [] n = 9000 -> <<"9", "0", "0", "0">>

\* C6: for a non-empty image list and a non-empty address, analyzeRenovation
\* sends one request whose parts are one inline part per image, in the order
\* of the list, with the mime type and the base64 text of that image, followed
\* by one text part that contains the address, the size, the budget and the
\* efficiency class as they were entered.
C6_RequestParts ==
    (svcIn.fn = "analyzeRenovation" /\ svcOut # Pending
        /\ svcIn.images # <<>> /\ svcIn.details.address # <<>>)
    => LET n == Len(svcIn.images)
           parts == svcOut.sent[1].contents.parts
       IN /\ Len(svcOut.sent) = 1
          /\ Len(parts) = n + 1
          /\ \A i \in 1..n :
                parts[i] = [inlineData |-> [mimeType |-> svcIn.images[i].file.type,
                                            data |-> <<svcIn.images[i].file.data>>]]
          /\ DOMAIN parts[n + 1] = {"text"}
          /\ Contains(parts[n + 1].text, <<"Address: ">> \o svcIn.details.address)
          /\ Contains(parts[n + 1].text, <<"Size: ">> \o Decimal(svcIn.details.sqm))
          /\ Contains(parts[n + 1].text, <<"Budget: EUR">> \o Decimal(svcIn.details.budget))
          /\ Contains(parts[n + 1].text, <<svcIn.details.currentEfficiency>>)

\* the request was built for two images of different types
C6_Witness ==
    /\ svcIn.fn = "analyzeRenovation"
    /\ svcOut # Pending
    /\ Len(svcIn.images) = 2
    /\ svcIn.images[1].type # svcIn.images[2].type
    /\ svcIn.details.address # <<>>
    /\ svcIn.details.sqm = 80
    /\ svcIn.details.currentEfficiency = "B"

\* C7: when the service resolves, generateRenovationImage and
\* generateBlueprintImage return the data URL of the first part with inline
\* data among the parts of the first candidate, and throw their no-image error
\* when that candidate has no such part or there is no candidate; they never
\* return an empty or placeholder string.
C7_FirstInlineOfFirstCandidate ==
    (svcIn.fn \in {"generateRenovationImage", "generateBlueprintImage"}
        /\ svcOut # Pending /\ ~svcIn.settled.rejected)
    => LET r == svcIn.settled.response
           cands == IF "candidates" \in DOMAIN r THEN r.candidates ELSE <<>>
           parts == IF cands = <<>> THEN <<>>
                    ELSE IF "content" \notin DOMAIN cands[1] THEN <<>>
                    ELSE IF "parts" \notin DOMAIN cands[1].content THEN <<>>
                    ELSE cands[1].content.parts
           inline == {i \in 1..Len(parts) : "inlineData" \in DOMAIN parts[i]}
           noImage == IF svcIn.fn = "generateRenovationImage" THEN "No image generated"
                      ELSE "No blueprint generated"
       IN IF inline = {}
          THEN svcOut.outcome = Throw(noImage)
          ELSE \E i \in inline :
                  /\ \A j \in inline : i <= j
                  /\ svcOut.outcome.ok
                  /\ svcOut.outcome.value =
                        <<"data:image/png;base64,", parts[i].inlineData.data>>

\* the image was taken from a candidate with a text part and two inline parts
C7_Witness ==
    /\ svcIn.fn = "generateRenovationImage"
    /\ svcIn.settled =
          Resolved([candidates |->
                      <<Candidate(<<TextPart, InlinePart("iVBOR2"), InlinePart("iVBOR1")>>)>>])
    /\ svcOut # Pending
    /\ svcOut.outcome = Return(<<"data:image/png;base64,", "iVBOR2">>)

-----------------------------------------------------------------------------
(* The claims about the Dashboard *)

\* the entry of a state object under a key, as a sequence of none or one value
Entry(map, key) == IF key \in DOMAIN map THEN <<map[key]>> ELSE <<>>

PhaseKeys ==
    DOMAIN phaseImages \cup DOMAIN blueprints
    \cup DOMAIN generatingPhase \cup DOMAIN generatingBlueprint

\* C8: when the image or blueprint call of a phase fails, by a service error or
\* by a response without an image, the stored images and blueprints keep their
\* values, the error is logged and an alert is shown, and the plan is unchanged.
C8_FailedAssetCall ==
    [][\A c \in BagToSet(assetCalls), s \in ImageSettles :
           (AssetSettles(c, s) /\ ~AssetOutcome(c, s).ok)
               => /\ Entry(phaseImages', c.index) = Entry(phaseImages, c.index)
                  /\ Entry(blueprints', c.index) = Entry(blueprints, c.index)
                  /\ phaseImages' = phaseImages
                  /\ blueprints' = blueprints
                  /\ plan' = plan
                  /\ consoleLog'.error = AssetOutcome(c, s).error
                  /\ alertMsg' # "none"]_vars

\* the image call of the first phase has failed for lack of an image
C8_Witness ==
    /\ DashboardShown
    /\ consoleLog = Log("Failed to generate image", "No image generated")
    /\ alertMsg = "Could not generate image. Please ensure you have a valid paid API key selected."
    /\ generatingPhase = (0 :> FALSE)
    /\ ~HasImage(phaseImages, 0)

\* C9: when the call of a phase settles, the entries and the generating flags
\* of every other phase keep their values, the other calls stay in flight as
\* they were, and a result is stored under the index of the call it came from.
C9_IndependentPhases ==
    [][\A c \in BagToSet(assetCalls), s \in ImageSettles :
           AssetSettles(c, s)
               => /\ \A j \in (PhaseKeys \cup PhaseKeys') \ {c.index} :
                        /\ Entry(phaseImages', j) = Entry(phaseImages, j)
                        /\ Entry(blueprints', j) = Entry(blueprints, j)
                        /\ Entry(generatingPhase', j) = Entry(generatingPhase, j)
                        /\ Entry(generatingBlueprint', j) = Entry(generatingBlueprint, j)
                  /\ assetCalls' = Remove(assetCalls, c)
                  /\ (c.live /\ AssetOutcome(c, s).ok)
                        => Entry(IF c.kind = "image" THEN phaseImages' ELSE blueprints',
                                 c.index) = <<AssetOutcome(c, s).value>>]_vars

\* the image call of the first phase has stored its result while the image
\* call of the second phase is in flight
C9_Witness ==
    /\ HasImage(phaseImages, 0)
    /\ ~Truthy(generatingPhase, 0)
    /\ Truthy(generatingPhase, 1)
    /\ ~HasImage(phaseImages, 1)
    /\ \E c \in BagToSet(assetCalls) : c.kind = "image" /\ c.index = 1 /\ c.pc = "request"

\* C10: after handleReset the state of App and of the Dashboard is the state
\* right after construction: step 1, no images, default details, no plan, no
\* error shown, isLoading false, no phase images and no blueprints.
C10_ResetToInitial ==
    [][handleReset => (AppInit /\ DashboardInit)']_vars

-----------------------------------------------------------------------------
(* The claims about the plan, the details and the calls in flight *)

\* the instruction text of the request a plan call has sent
PromptSent(c) == c.sent[1].contents.parts[Len(c.sent[1].contents.parts)].text

\* C11: whenever a plan call settles with a plan that the Dashboard then shows,
\* the details the Dashboard is given are the details embedded in the request
\* of that call: the prompt built from them is the prompt that was sent.
C11_DetailsOfTheRequest ==
    [][\A c \in BagToSet(planCalls), s \in PlanSettles :
           (AnalysisSettles(c, s) /\ PlanResult(s).ok /\ DashboardShown')
               => PromptSent(c) = prompt(details')]_vars


\* C12: no operation of the Dashboard (generating an image or a blueprint,
\* changing the image quality, exporting the PDF), in any interleaving, changes
\* the plan: its fields and the order of its phases stay as they were.
C12_PlanNotMutated ==
    [][DashboardOps => plan' = plan]_vars

\* the PDF was just exported after an image and a blueprint were stored and the
\* image quality was changed, and the plan is the one the Dashboard was given
C12_Witness ==
    /\ saved.file = "reno-plan.pdf"
    /\ HasImage(phaseImages, 0)
    /\ HasImage(blueprints, 1)
    /\ imageSize = "2K"
    /\ alertMsg # "none"
    /\ plan = JSONvalue(PlanA)

\* every number literal of a JSON value is an integer up to 2^53
RECURSIVE SafeNumbers(_)
SafeNumbers(ast) ==
    CASE ast.t = "num" -> SafeInteger(ast.lit)
      [] ast.t = "arr" -> \A i \in 1..Len(ast.items) : SafeNumbers(ast.items[i])
      [] ast.t = "obj" -> \A f \in DOMAIN ast.fields : SafeNumbers(ast.fields[f])
      [] OTHER -> TRUE

\* the value has the members, the elements in their order, the strings and the
\* numbers the text of a JSON value has: a number is the one its literal writes
RECURSIVE SameAsSource(_, _)
SameAsSource(v, ast) ==
    CASE ast.t = "num" -> IF Len(ast.lit) <= MaxIntDigits THEN NumberToString(v) = ast.lit
                          ELSE v.digits = ast.lit
      [] ast.t = "str" -> v = ast.s
      [] ast.t = "arr" -> /\ DOMAIN v = 1..Len(ast.items)
                          /\ \A i \in 1..Len(ast.items) : SameAsSource(v[i], ast.items[i])
      [] ast.t = "obj" -> /\ DOMAIN v = DOMAIN ast.fields
                          /\ \A f \in DOMAIN ast.fields : SameAsSource(v[f], ast.fields[f])
      [] ast.t = "null" -> v = NULL

\* a response whose text is valid against responseSchema
SchemaConformant(settled) ==
    /\ ~settled.rejected
    /\ ~Falsy(settled.response.text)
    /\ SchemaValid(settled.response.text)

\* C13 as stated: for every well-formed text valid against the schema,
\* analyzeRenovation returns a plan whose every field, numbers included, has
\* exactly the value written in the text. An integer above 2^53 is returned as
\* the nearest double instead.
C13_ExactRoundTrip ==
    (svcIn.fn = "analyzeRenovation" /\ svcOut # Pending /\ SchemaConformant(svcIn.settled))
        => /\ svcOut.outcome.ok
           /\ SameAsSource(svcOut.outcome.value, svcIn.settled.response.text.ast)

\* C13, amended: for every well-formed text valid against the schema whose
\* numbers are integers up to 2^53, analyzeRenovation returns a plan whose every
\* field has exactly the value written in the text, the arrays in the order of
\* the text, and totalCost and totalDuration as written, whatever the phases
\* add up to; nothing is logged.
C13_RoundTripOfSafeNumbers ==
    (/\ svcIn.fn = "analyzeRenovation"
     /\ svcOut # Pending
     /\ SchemaConformant(svcIn.settled)
     /\ SafeNumbers(svcIn.settled.response.text.ast))
        => /\ svcOut.outcome.ok
           /\ SameAsSource(svcOut.outcome.value, svcIn.settled.response.text.ast)
           /\ svcOut.logged = <<>>

\* a plan of two phases was returned whose total cost is not the sum of the
\* costs of its phases
C13_Witness ==
    /\ svcIn.fn = "analyzeRenovation"
    /\ svcOut # Pending
    /\ SchemaConformant(svcIn.settled)
    /\ svcOut.outcome.ok
    /\ Len(svcOut.outcome.value.phases) = 2
    /\ svcOut.outcome.value.phases[1].name # svcOut.outcome.value.phases[2].name
    /\ svcOut.outcome.value.totalCost = 180000
    /\ svcOut.outcome.value.phases[1].costEstimate
         + svcOut.outcome.value.phases[2].costEstimate = 160000

\* a click on the Visualize Phase or the Generate Blueprint button of a phase
ClickGenerate == \E idx \in PhaseIndices : ClickVisualize(idx) \/ ClickBlueprint(idx)

\* C14: while window.aistudio is absent, a click on Visualize Phase or on
\* Generate Blueprint issues the service call in the same step, with the
\* in-progress flag of the phase set, and no call ever waits for
\* hasSelectedApiKey or for the key dialog.
C14_NoHookNoPrompt ==
    [][(aistudio = "absent" /\ ClickGenerate)
          => /\ \E c \in BagToSet(assetCalls') :
                    /\ assetCalls' = Add(assetCalls, c)
                    /\ c.pc = "request"
                    /\ IF c.kind = "image" THEN Truthy(generatingPhase', c.index)
                       ELSE Truthy(generatingBlueprint', c.index)
             /\ \A c \in BagToSet(assetCalls') : c.pc = "request"
             /\ aistudio' = "absent"]_vars

\* without the hook, an image call and a blueprint call are in flight
C14_Witness ==
    /\ aistudio = "absent"
    /\ \E c \in BagToSet(assetCalls) : c.kind = "image" /\ c.pc = "request"
    /\ \E c \in BagToSet(assetCalls) : c.kind = "blueprint" /\ c.pc = "request"

\* this step sends the request of an image or blueprint call
AssetRequestIssued ==
    \E c \in BagToSet(assetCalls') :
        c.pc = "request" /\ CopiesIn(c, assetCalls') > CopiesIn(c, assetCalls)

\* this step sends the request of a plan call
PlanRequestIssued ==
    \E c \in BagToSet(planCalls') : CopiesIn(c, planCalls') > CopiesIn(c, planCalls)

\* the key dialog of call c fails: nothing is sent, and no in-progress flag,
\* image or blueprint changes
FailedPromptIsQuiet ==
    \A c \in BagToSet(assetCalls) :
        OpenSelectKeySettles(c, TRUE)
            => /\ ~AssetRequestIssued
               /\ assetCalls' = Remove(assetCalls, c)
               /\ UNCHANGED <<generatingPhase, generatingBlueprint, phaseImages, blueprints>>

\* hasSelectedApiKey of call c answers that no key is selected: the key dialog
\* is opened, and nothing is sent yet
NoKeyIsPrompted ==
    \A c \in BagToSet(assetCalls) :
        (aistudio = "noKey" /\ HasSelectedApiKeySettles(c, FALSE))
            => /\ ~AssetRequestIssued
               /\ assetCalls' = Add(Remove(assetCalls, c), [c EXCEPT !.pc = "openSelectKey"])
               /\ UNCHANGED <<generatingPhase, generatingBlueprint, phaseImages, blueprints>>

\* C15 as stated: no generation request, of a plan, an image or a blueprint, is
\* sent while the host reports that no key is selected, and a failed key dialog
\* sends nothing and changes no flag and no image. The plan request is sent
\* without asking the host.
C15_PromptBeforeEveryCall ==
    [][/\ (PlanRequestIssued \/ AssetRequestIssued) => aistudio' # "noKey"
       /\ NoKeyIsPrompted
       /\ FailedPromptIsQuiet]_vars

\* C15, amended: no image or blueprint request is sent while the host reports
\* that no key is selected: the key dialog is opened first, and when it fails
\* nothing is sent and no in-progress flag, image or blueprint changes. The plan
\* request is sent whatever the host reports.
C15_PromptBeforeAssetCall ==
    [][/\ AssetRequestIssued => aistudio' # "noKey"
       /\ NoKeyIsPrompted
       /\ FailedPromptIsQuiet
       /\ (ClickGeneratePlan /\ details.address # <<>>) => PlanRequestIssued]_vars

\* a key dialog failed, a later one succeeded, and the request of an image or
\* blueprint call was sent after it
C15_Witness ==
    /\ consoleLog = Log("Failed to select key", "dialog rejected")
    /\ aistudio = "hasKey"
    /\ \E c \in BagToSet(assetCalls) : c.pc = "request"

\* a call of this kind for phase i of the mounted Dashboard has sent its request
\* and has not settled
RequestInFlight(kind, i) ==
    \E c \in BagToSet(assetCalls) : c.live /\ c.kind = kind /\ c.index = i /\ c.pc = "request"

\* C16: the in-progress flag of a phase is true exactly while an image call,
\* or for the blueprint flag a blueprint call, of that phase has been issued and
\* has not settled, also when several calls of the phase overlap. Two clicks
\* while hasSelectedApiKey is awaited issue two calls, and the first to settle
\* clears the flag of both.
C16_FlagTracksCalls ==
    \A i \in {0, 1} :
        /\ Truthy(generatingPhase, i) <=> RequestInFlight("image", i)
        /\ Truthy(generatingBlueprint, i) <=> RequestInFlight("blueprint", i)

\* the response of plan call c arrives after a reset: the form is empty, which
\* it is only after handleReset when no photo is uploaded again, and every plan
\* call was issued from a form with a photo
StalePlanSettles(c, s) == images = <<>> /\ AnalysisSettles(c, s)

\* the response of image or blueprint call c arrives after the Dashboard that
\* issued it was reset
StaleAssetSettles(c, s) == ~c.live /\ AssetSettles(c, s)

\* C17: the response of a plan, image or blueprint call issued before
\* handleReset that arrives after it changes neither the plan, the step, the
\* error, nor an image or blueprint. A plan that arrives after the reset is
\* stored and shown.
C17_StaleResponseIgnored ==
    [][/\ \A c \in BagToSet(planCalls), s \in PlanSettles :
              StalePlanSettles(c, s)
                  => UNCHANGED <<plan, step, error, phaseImages, blueprints>>
       /\ \A c \in BagToSet(assetCalls), s \in ImageSettles :
              StaleAssetSettles(c, s)
                  => UNCHANGED <<plan, step, error, phaseImages, blueprints>>]_vars

\* the plans a successful call returns for a text valid against responseSchema
CompletePlans ==
    {PlanResult(s).value : s \in {t \in PlanSettles : SchemaConformant(t)}}

\* C18: the plan is null or a complete plan that one successful call returned;
\* a call that succeeds replaces the plan by the one it returned and moves to
\* step 3, a call that fails keeps plan and step and sets the error message,
\* and nothing else changes the plan but the reset, which makes it null. A
\* call that returns a plan without a required field succeeds, and that plan
\* is stored.
C18_PlanWholeOrNull ==
    [][/\ plan' = NULL \/ plan' \in CompletePlans
       /\ \A c \in BagToSet(planCalls), s \in PlanSettles :
              (AnalysisSettles(c, s) /\ ~crashed)
                  => IF PlanResult(s).ok
                     THEN plan' = PlanResult(s).value /\ step' = 3
                     ELSE /\ UNCHANGED <<plan, step>>
                          /\ error' = handleAnalysis_catch(PlanResult(s).error)
       /\ plan' # plan
              => \/ plan' = NULL
                 \/ \E c \in BagToSet(planCalls), s \in PlanSettles :
                        AnalysisSettles(c, s) /\ PlanResult(s).ok
                            /\ plan' = PlanResult(s).value]_vars

\* C19: while the service fails, every plan call in flight leads to a state in
\* which isLoading is false and the Generate Plan button can be clicked, and
\* every image or blueprint call of a phase whose request is in flight leads to
\* a state in which the in-progress flag of the phase is false and the button of
\* the phase can be clicked; a click issues a call of its own.
C19_FailureClearsAndAllowsRetry ==
    /\ (planCalls # EmptyBag) ~> (~isLoading /\ ENABLED ClickGeneratePlan)
    /\ \A i \in {0, 1} :
          /\ RequestInFlight("image", i)
                ~> (~Truthy(generatingPhase, i) /\ ENABLED ClickVisualize(i))
          /\ RequestInFlight("blueprint", i)
                ~> (~Truthy(generatingBlueprint, i) /\ ENABLED ClickBlueprint(i))
    /\ [][(ClickGeneratePlan \/ ClickGenerate)
             => BagCardinality(planCalls') + BagCardinality(assetCalls')
                  = BagCardinality(planCalls) + BagCardinality(assetCalls) + 1]_vars

\* an image call of phase 0 and then a blueprint call of phase 1 have failed,
\* their flags are cleared, and Visualize Phase of phase 0 was clicked again
C19_Witness ==
    /\ alertMsg = "Could not generate blueprint."
    /\ 1 \in DOMAIN generatingBlueprint /\ ~generatingBlueprint[1]
    /\ 0 \in DOMAIN generatingPhase /\ ~generatingPhase[0]
    /\ \E c \in BagToSet(assetCalls) :
           c.kind = "image" /\ c.index = 0 /\ c.pc = "hasSelectedApiKey"

\* how often a file occurs in a sequence of files
Count(f, seq) == Cardinality({i \in 1..Len(seq) : seq[i] = f})

\* processFiles starts one read for every file of the list whose mime type
\* starts with image/, none for another file, and appends nothing yet
OneReadPerImageFile ==
    \A files \in MoodFileLists :
        processFiles(files)
            => /\ images' = images
               /\ \A f \in Files :
                     Count(f, reads') = Count(f, reads)
                         + (IF f.type[1] = "image/" THEN Count(f, files) ELSE 0)

\* a read that completes appends one asset of its file at the end of the list,
\* keeps the assets before it, and is no longer in flight; the other reads stay
OneAssetPerRead ==
    \A i \in 1..MaxFiles, id \in Ids :
        ReaderOnload(i, id)
            => \E f \in Files :
                  /\ f.type[1] = "image/"
                  /\ Len(images') = Len(images) + 1
                  /\ SubSeq(images', 1, Len(images)) = images
                  /\ images'[Len(images')].file = f
                  /\ images'[Len(images')].type = f.type
                  /\ images'[Len(images')].base64 = <<f.data>>
                  /\ \A g \in Files :
                        Count(g, reads') = Count(g, reads) - (IF g = f THEN 1 ELSE 0)

\* C20: every file passed to processFiles whose mime type starts with image/
\* gives one read, and every read that completes gives one ImageAsset of its
\* file, appended at the end of the list, whatever the order in which the reads
\* complete: the list is in the order of completion, and no asset is lost or
\* comes twice. A file of another type gives no read and no asset.
C20_OneAssetPerImageFile ==
    [][OneReadPerImageFile /\ OneAssetPerRead]_vars

\* three reads have completed, the photo of the roof first, although the photo
\* of the front was ahead of it in the list dropped; the text file left nothing
C20_Witness ==
    /\ Len(images) = 3
    /\ reads = <<>>
    /\ images[1].file = FilePng
    /\ images[2].file = FileJpeg
    /\ images[3].file = FileJpeg
    /\ \A i \in 1..3 : images[i].file # FileText

-----------------------------------------------------------------------------
(* The claims about the image list *)

\* C21: the identifiers of the images in the list are pairwise distinct. The
\* identifier is drawn with Math.random for each image and compared with no
\* other, so two images of the list can carry the same one.
C21_DistinctIds ==
    \A i \in 1..Len(images), j \in 1..Len(images) :
        i # j => images[i].id # images[j].id

\* the positions of the images that do not carry the identifier
Others(id) == {i \in 1..Len(images) : images[i].id # id}

\* the k-th of these positions
KthOther(id, k) ==
    CHOOSE i \in Others(id) : Cardinality({j \in Others(id) : j <= i}) = k

-----------------------------------------------------------------------------
(* The claims about the sessions of the application *)

\* C23: at most one plan request is in flight, and while isLoading is true the
\* Generate Plan button cannot be clicked. The button's own disabled prop
\* replaces the one computed from isLoading, so the button stays enabled and
\* a second click issues a second request.
C23_OnePlanRequest ==
    /\ BagCardinality(planCalls) <= 1
    /\ isLoading => ~ENABLED ClickGeneratePlan

\* C25: step is 1 or 3, and it is 3 only with a plan that is not null. A
\* response whose text is the JSON text null is parsed to null, stored as the
\* plan, and followed by setStep(3).
C25_StepThreeHasPlan ==
    /\ step \in {1, 3}
    /\ step = 3 => plan # NULL

\* the Dashboard holds no image, no blueprint and no in-progress flag
DashboardEmpty ==
    /\ phaseImages = EmptyMap
    /\ blueprints = EmptyMap
    /\ generatingPhase = EmptyMap
    /\ generatingBlueprint = EmptyMap

\* C22: handleReset leaves no image, blueprint or in-progress flag; the
\* Dashboard shown by the plan generation that follows starts with none; and a
\* call of the Dashboard before the reset that settles later changes none.
C22_NothingSurvivesReset ==
    [][/\ handleReset => DashboardEmpty'
       /\ (~DashboardShown /\ DashboardShown') => DashboardEmpty'
       /\ \A c \in BagToSet(assetCalls), s \in ImageSettles :
              (~c.live /\ AssetSettles(c, s))
                  => UNCHANGED <<phaseImages, blueprints, generatingPhase,
                                 generatingBlueprint>>]_vars

\* a Dashboard is shown with no image and no flag after a call of the
\* Dashboard before the reset has failed, and while another is still in flight
C22_Witness ==
    /\ DashboardShown
    /\ DashboardEmpty
    /\ \E c \in BagToSet(assetCalls) : ~c.live /\ c.pc = "request"
    /\ alertMsg # "none"

\* the image or blueprint call c was made for the phase the plan shown now has
\* at the index of c
MadeForShownPhase(c) ==
    /\ c.index + 1 <= Len(plan.phases)
    /\ c.args.description = Prop(plan.phases[c.index + 1], "description")

\* C24: every image or blueprint is stored under the index of the phase, of
\* the plan shown, from whose description it was generated, and no plan
\* replaces another while an image or blueprint is stored. A second plan
\* request that resolves while the Dashboard of the first is shown replaces
\* the plan, and the Dashboard keeps the images of the first.
C24_ImagesOfTheShownPlan ==
    [][/\ \A c \in BagToSet(assetCalls), s \in ImageSettles :
              (c.live /\ AssetSettles(c, s) /\ AssetOutcome(c, s).ok)
                  => MadeForShownPhase(c)
       /\ (plan # NULL /\ plan' # NULL /\ plan' # plan)
              => (phaseImages' = EmptyMap /\ blueprints' = EmptyMap)]_vars

=============================================================================
